---- MODULE Spec2Model ----
(***************************************************************************)
(* A model of the VizSNP annotation pipeline (vizsnp.js): the indexed      *)
(* variant reader readVcfFile, the batcher chunk, the consequence resolver *)
(* getVariantConsequences, the structure mapper getBestStructures, the     *)
(* record assembler processVariantConsequences, the driver vizsnp and the  *)
(* identifier mapper getProteinIds with its submit/poll loop.              *)
(*                                                                         *)
(* JavaScript strings that the code splits, joins or searches are          *)
(* sequences of one-character strings; null/undefined of such a value is   *)
(* the empty sequence (both are falsy, like the empty string).  Labels     *)
(* that the code only compares (sift_prediction, polyphen_prediction) are  *)
(* TLA+ strings, with Undefined for an absent property.                    *)
(***************************************************************************)
EXTENDS Integers, Sequences, FiniteSets, TLC

VARIABLES
    pc,         \* where the modelled call stands
    error,      \* the exception the call ended with ("none" while it has none)
    file,       \* the indexed variant file: one entry per reference sequence
    limit,      \* readVcfFile's limit
    filter,     \* readVcfFile's filter (<<>> when unset)
    refIdx,     \* readVcfFile: position of the for loop over refNames
    lineIdx,    \* readVcfFile: lines of the current getLines already delivered
    variants,   \* readVcfFile's variants / vizsnp's vcfFileContents / chunk's array
    wasted,     \* history: line callbacks run while variants.length >= limit
    chunkSize,  \* chunk's chunkSize
    i,          \* chunk's loop variable
    gen,        \* the generator's position: "start", "yielded", "done"
    batch,      \* the batch the generator yielded last
    yielded,    \* history: every batch yielded so far
    requests,   \* history: bodies of the requests sent to the consequence service
    response,   \* the last response of the consequence service
    data,       \* what getVariantConsequences returned (processVariantConsequences' data)
    results,    \* processVariantConsequences' results
    bestCalls,  \* history: argument of every getBestStructures call
    pdbe,       \* the structure service's content: accession -> candidate list
    output,     \* vizsnp's results
    events,     \* history: order of requests and completed assemblies
    ids,        \* getProteinIds' ids
    jobs,       \* history: bodies of the jobs submitted to the mapping service
    jobId,      \* getProteinIds' jobId
    job,        \* the mapping service's job: whether it finishes, and the status
                \* requests it still answers without results
    status,     \* getProteinIds' status
    polls,      \* history: status requests sent, counted up to MaxPolls
    waited,     \* history: milliseconds slept since the last status answer
    mapped      \* what getProteinIds returned

vars == << pc, error, file, limit, filter, refIdx, lineIdx, variants, wasted,
           chunkSize, i, gen, batch, yielded, requests, response, data,
           results, bestCalls, pdbe, output, events,
           ids, jobs, jobId, job, status, polls, waited, mapped >>

readerVars == << file, limit, filter, refIdx, lineIdx, wasted >>
chunkVars  == << chunkSize, i, gen, batch, yielded >>
driverVars == << requests, response, data, results, bestCalls, pdbe, output, events >>
pollVars   == << ids, jobs, jobId, job, status, polls, waited, mapped >>

-----------------------------------------------------------------------------
(* Bounds of the model *)

MaxRefs == 2        \* reference sequences in a file read step by step
MaxLines == 3       \* lines per reference sequence in such a file
MaxLimit == 3       \* largest limit tried on such a file
MaxChunkLen == 5    \* longest array handed to chunk on its own
MaxChunkSize == 3   \* largest chunk size tried on its own
MaxData == 3        \* predictions in one call of the assembler on its own
MaxPolls == 4       \* status requests counted in one call of getProteinIds

-----------------------------------------------------------------------------
(* Strings *)

Undefined == "undefined"

\* JavaScript truthiness of a label
Truthy(x) == x # Undefined /\ x # ""

RECURSIVE Flatten(_)
\* Array.prototype.concat over a list of lists, "".concat over a list of strings
Flatten(ss) == IF ss = << >> THEN << >> ELSE Head(ss) \o Flatten(Tail(ss))

RECURSIVE Join(_, _)
\* Array.prototype.join(sep)
Join(ss, sep) ==
    IF ss = << >> THEN << >>
    ELSE IF Len(ss) = 1 THEN ss[1]
    ELSE ss[1] \o sep \o Join(Tail(ss), sep)

\* s.startsWith(t) at offset k (1-based)
MatchAt(s, t, k) ==
    /\ k + Len(t) - 1 <= Len(s)
    /\ \A j \in 1..Len(t) : s[k + j - 1] = t[j]

\* String.prototype.includes
Includes(s, t) == \E k \in 1..(Len(s) + 1) : MatchAt(s, t, k)

\* String.prototype.indexOf, 1-based, 0 when absent
IndexOf(s, t) ==
    IF Includes(s, t)
    THEN CHOOSE k \in 1..(Len(s) + 1) :
            /\ MatchAt(s, t, k)
            /\ \A m \in 1..(k - 1) : ~MatchAt(s, t, m)
    ELSE 0

\* String.prototype.replace(t, "") with a string pattern: the first occurrence only
RemoveFirst(s, t) ==
    LET k == IndexOf(s, t)
    IN  IF k = 0 THEN s
        ELSE SubSeq(s, 1, k - 1) \o SubSeq(s, k + Len(t), Len(s))

RECURSIVE Split(_, _)
\* String.prototype.split(sep) for a one-character separator: always at least
\* one part, "" splits into [""]
Split(s, sep) ==
    LET k == IndexOf(s, << sep >>)
    IN  IF k = 0 THEN << s >>
        ELSE << SubSeq(s, 1, k - 1) >> \o Split(SubSeq(s, k + 1, Len(s)), sep)

Digit(d) == << "0", "1", "2", "3", "4", "5", "6", "7", "8", "9" >>[d + 1]

RECURSIVE NumberToString(_)
\* String(n) for a non-negative integer
NumberToString(n) ==
    IF n < 10 THEN << Digit(n) >>
    ELSE NumberToString(n \div 10) \o << Digit(n % 10) >>

-----------------------------------------------------------------------------
(* The indexed variant file.  A reference sequence of the index is
   [name, n, tags]: n lines at positions 1..n (the file is position-sorted),
   whose INFO column cycles through tags. *)

Chr(k) == << "c", "h", "r" >> \o NumberToString(k)
Tab == << "\t" >>
Dot == << "." >>
TagA == << "G", "=", "A" >>
TagB == << "G", "=", "B" >>
TagPatterns == { << TagA >>, << TagA, TagB >> }

\* the j-th line of reference sequence ref, as its columns
LineOf(ref, j) ==
    [ CHROM |-> ref.name, POS |-> j, ID |-> Dot, REF |-> << "A" >>,
      ALT |-> << "T" >>, INFO |-> ref.tags[((j - 1) % Len(ref.tags)) + 1] ]

\* the raw text of a line, which the line callback receives
RawLine(l) ==
    Join(<< l.CHROM, NumberToString(l.POS), l.ID, l.REF, l.ALT, l.INFO >>, Tab)

\* tbiVCFParser.parseLine(line): ID "." parses to null, ALT to the list of alleles
parseLine(l) ==
    [ CHROM |-> l.CHROM, POS |-> l.POS,
      ID |-> IF l.ID = Dot THEN << >> ELSE Split(l.ID, ";"),
      REF |-> l.REF,
      ALT |-> IF l.ALT = Dot THEN << >> ELSE Split(l.ALT, ",") ]

\* refNames = Object.keys(tbiVCFParser.metadata.contig)
refNames(f) == [ k \in 1..Len(f) |-> f[k].name ]

\* the test of the line callback with <= for <
AcceptsMut(vs, lim, flt, raw) == Len(vs) <= lim /\ (flt = << >> \/ Includes(raw, flt))
\* the test of the line callback
Accepts(vs, lim, flt, raw) == Len(vs) < lim /\ (flt = << >> \/ Includes(raw, flt))

\* the line callback: variants after it has run on line l
Callback(vs, lim, flt, l) ==
    IF Accepts(vs, lim, flt, RawLine(l)) THEN Append(vs, parseLine(l)) ELSE vs

RECURSIVE ReadLines(_, _, _, _, _, _)
\* getLines(refName, 0, undefined, callback) delivering lines a..b in order
\* (the range is halved to keep the evaluation shallow)
ReadLines(vs, lim, flt, ref, a, b) ==
    IF a > b THEN vs
    ELSE IF a = b THEN Callback(vs, lim, flt, LineOf(ref, a))
    ELSE LET m == (a + b) \div 2
             first == ReadLines(vs, lim, flt, ref, a, m)
         IN  \* the test only makes TLC evaluate the first half before the second
             IF Len(first) >= 0 THEN ReadLines(first, lim, flt, ref, m + 1, b)
             ELSE first

RECURSIVE ReadRefs(_, _, _, _, _)
\* the for loop over refNames from reference sequence k on
ReadRefs(vs, lim, flt, f, k) ==
    IF k > Len(f) THEN vs
    ELSE ReadRefs(ReadLines(vs, lim, flt, f[k], 1, f[k].n), lim, flt, f, k + 1)

\* readVcfFile as a whole
readVcfFile(f, lim, flt) == ReadRefs(<< >>, lim, flt, f, 1)

(* readVcfFile step by step: one action per turn of the for loop and per
   line callback *)

\* the for loop reaches the next reference sequence and starts its getLines,
\* or has none left and returns
GetLines ==
    /\ pc = "readLoop"
    /\ IF refIdx <= Len(file)
       THEN pc' = "getLines" /\ lineIdx' = 0
       ELSE pc' = "readDone" /\ lineIdx' = lineIdx
    /\ UNCHANGED << error, file, limit, filter, refIdx, variants, wasted >>
    /\ UNCHANGED chunkVars /\ UNCHANGED driverVars
    /\ UNCHANGED pollVars

\* getLines delivers the next line of the reference sequence to the callback
LineCallback ==
    /\ pc = "getLines"
    /\ lineIdx < file[refIdx].n
    /\ variants' = Callback(variants, limit, filter, LineOf(file[refIdx], lineIdx + 1))
    /\ lineIdx' = lineIdx + 1
    /\ wasted' = IF Len(variants) >= limit THEN wasted + 1 ELSE wasted
    /\ UNCHANGED << pc, error, file, limit, filter, refIdx >>
    /\ UNCHANGED chunkVars /\ UNCHANGED driverVars
    /\ UNCHANGED pollVars

\* getLines has delivered every line: its promise resolves, the loop goes on
GetLinesDone ==
    /\ pc = "getLines"
    /\ lineIdx = file[refIdx].n
    /\ refIdx' = refIdx + 1
    /\ pc' = "readLoop"
    /\ UNCHANGED << error, file, limit, filter, lineIdx, variants, wasted >>
    /\ UNCHANGED chunkVars /\ UNCHANGED driverVars
    /\ UNCHANGED pollVars

\* files small enough to read line by line
RefsOf(counts, patterns) ==
    UNION { [ 1..m -> [ n : counts, tags : patterns ] ] : m \in 1..MaxRefs }
FilesOf(counts, patterns) ==
    { [ k \in 1..Len(r) |-> [ name |-> Chr(k), n |-> r[k].n, tags |-> r[k].tags ] ] :
        r \in RefsOf(counts, patterns) }
Filters == { << >>, << "A" >>, << "=", "B" >> }

\* the variables the reader does not use
IdleChunk ==
    /\ chunkSize = 0 /\ i = 0 /\ gen = "start" /\ batch = << >> /\ yielded = << >>
NoResponse == [ ok |-> TRUE, kind |-> "none", body |-> << >> ]
NoData == [ kind |-> "none", items |-> << >> ]
IdleDriver ==
    /\ requests = << >> /\ response = NoResponse /\ data = NoData /\ results = << >>
    /\ bestCalls = << >> /\ pdbe = << >> /\ output = << >> /\ events = << >>

\* values of the mapping service's JSON: null, undefined (an absent property)
\* and an array
NullValue == [ kind |-> "null", items |-> << >> ]
UndefinedValue == [ kind |-> "undefined", items |-> << >> ]
ArrayValue(a) == [ kind |-> "array", items |-> a ]

IdlePoll ==
    /\ ids = << >> /\ jobs = << >> /\ jobId = Undefined
    /\ job = [ finishes |-> FALSE, pending |-> 0 ]
    /\ status = [ results |-> NullValue ]
    /\ polls = 0 /\ waited = 0 /\ mapped = UndefinedValue

InitRead ==
    /\ pc = "readLoop" /\ error = "none"
    /\ file \in FilesOf(0..MaxLines, TagPatterns)
    /\ limit \in 0..MaxLimit
    /\ filter \in Filters
    /\ refIdx = 1 /\ lineIdx = 0 /\ variants = << >> /\ wasted = 0
    /\ IdleChunk /\ IdleDriver /\ IdlePoll

NextRead == GetLines \/ LineCallback \/ GetLinesDone

SpecRead == InitRead /\ [][NextRead]_vars

\* the step-by-step reader returns what readVcfFile computes
ReadAgrees == pc = "readDone" => variants = readVcfFile(file, limit, filter)

-----------------------------------------------------------------------------
(* chunk *)

Min(a, b) == IF a <= b THEN a ELSE b

\* array.slice(from, to) with the end one short
SliceShort(array, from, to) == SubSeq(array, from + 1, Min(to - 1, Len(array)))

\* array.slice(from, to) for 0 <= from <= to: 0-based, end exclusive and clamped
Slice(array, from, to) == SubSeq(array, from + 1, Min(to, Len(array)))

RECURSIVE ChunksFrom(_, _, _)
ChunksFrom(array, size, from) ==
    IF from < Len(array)
    THEN << Slice(array, from, from + size) >> \o ChunksFrom(array, size, from + size)
    ELSE << >>

\* chunk returning the array of all chunks
chunk(array, size) == ChunksFrom(array, size, 0)

\* chunk as a generator: the consumer asks for the next value.  The loop
\* variable advances when the generator is resumed after a yield.
ChunkNext ==
    /\ pc = "chunk"
    /\ LET from == IF gen = "start" THEN 0 ELSE i + chunkSize
       IN  /\ i' = from
           /\ IF from < Len(variants)
              THEN /\ batch' = Slice(variants, from, from + chunkSize)
                   /\ yielded' = Append(yielded, batch')
                   /\ gen' = "yielded"
                   /\ pc' = "batch"
              ELSE /\ gen' = "done"
                   /\ pc' = "return"
                   /\ UNCHANGED << batch, yielded >>
    /\ UNCHANGED << error, variants, chunkSize >>
    /\ UNCHANGED readerVars /\ UNCHANGED driverVars
    /\ UNCHANGED pollVars

\* a for...of loop over the generator whose body does nothing with the batch
TakeBatch ==
    /\ pc = "batch"
    /\ pc' = "chunk"
    /\ UNCHANGED << error, variants >>
    /\ UNCHANGED readerVars /\ UNCHANGED chunkVars /\ UNCHANGED driverVars
    /\ UNCHANGED pollVars

IdleReader ==
    /\ file = << >> /\ limit = 0 /\ filter = << >>
    /\ refIdx = 0 /\ lineIdx = 0 /\ wasted = 0

InitChunk ==
    /\ pc = "chunk" /\ error = "none"
    /\ variants \in UNION { [ 1..n -> 1..2 ] : n \in 0..MaxChunkLen }
    /\ chunkSize \in 1..MaxChunkSize
    /\ i = 0 /\ gen = "start" /\ batch = << >> /\ yielded = << >>
    /\ IdleReader /\ IdleDriver /\ IdlePoll

NextChunk == ChunkNext \/ TakeBatch

SpecChunk == InitChunk /\ [][NextChunk]_vars

-----------------------------------------------------------------------------
(* The consequence service's data *)

Str(w) == << w >>
Null == << >>

\* null ?? "." (a null column; the model does not tell it from an empty one)
OrDot(x) == IF x = Null THEN Dot ELSE x

\* parseVariant: the query line "{chrom} {pos} {id} {ref} {alt_csv} ."
parseVariant(v) ==
    LET CHROM == IF v.CHROM # Null THEN RemoveFirst(v.CHROM, << "c", "h", "r" >>) ELSE Null
        ID    == IF v.ID # Null THEN v.ID[1] ELSE Null
        ALT   == IF v.ALT # Null THEN Join(v.ALT, << "," >>) ELSE Null
    IN  Join(<< OrDot(CHROM), NumberToString(v.POS), OrDot(ID), OrDot(v.REF),
                OrDot(ALT), Dot >>, << " " >>)

\* Array.prototype.map(parseVariant)
MapParseVariant(vs) == [ k \in 1..Len(vs) |-> parseVariant(vs[k]) ]

P12345v2 == << "P", "1", "2", "3", "4", "5", ".", "2" >>
Q9v10 == << "Q", "9", ".", "1", "0" >>
P12345 == << "P", "1", "2", "3", "4", "5" >>
Q9 == << "Q", "9" >>

\* transcript consequences of the service
ConsB ==
    [ gene_id |-> Str("ENSG01"), swissprot |-> << P12345v2 >>,
      amino_acids |-> << "A", "/", "V" >>, protein_start |-> 42,
      sift_prediction |-> "deleterious", sift_score |-> "0.01",
      polyphen_prediction |-> Undefined, polyphen_score |-> Undefined ]
ConsC == [ ConsB EXCEPT !.sift_prediction = "tolerated", !.sift_score = "0.4",
                        !.polyphen_prediction = "benign", !.polyphen_score = "0.1" ]
ConsNoPrediction == [ ConsB EXCEPT !.sift_prediction = Undefined, !.sift_score = Undefined ]
ConsNoProtein == [ ConsB EXCEPT !.swissprot = << >> ]
ConsPolyphenQ ==
    [ ConsB EXCEPT !.gene_id = Str("ENSG02"), !.swissprot = << Q9v10, P12345v2 >>,
                   !.amino_acids = << "R", "/", "H" >>, !.protein_start = 7,
                   !.sift_prediction = Undefined, !.sift_score = Undefined,
                   !.polyphen_prediction = "probably_damaging",
                   !.polyphen_score = "0.99" ]
ConsNoSlash == [ ConsB EXCEPT !.amino_acids = << "A", "V" >> ]
ConsThreeParts == [ ConsC EXCEPT !.amino_acids = << "A", "/", "V", "/", "G" >> ]

\* the transcript_consequences lists a prediction may carry (none when the
\* property is absent)
TranscriptChoices ==
    << << >>,
       << ConsB >>,
       << ConsC >>,
       << ConsNoPrediction, ConsB >>,
       << ConsNoProtein >>,
       << ConsPolyphenQ, ConsB >>,
       << ConsNoSlash >>,
       << ConsThreeParts >> >>

\* the query line of the variant at position n of chr1
QueryLine(n) ==
    parseVariant(parseLine(LineOf([ name |-> Chr(1), n |-> n, tags |-> << TagA >> ], n)))

-----------------------------------------------------------------------------
(* processVariantConsequences *)

\* the predicate of transcript_consequences.find
Eligible(c) ==
    /\ Truthy(c.sift_prediction) \/ Truthy(c.polyphen_prediction)
    /\ Len(c.swissprot) > 0

RECURSIVE FindFrom(_, _)
FindFrom(cs, k) ==
    IF k > Len(cs) THEN 0
    ELSE IF Eligible(cs[k]) THEN k
    ELSE FindFrom(cs, k + 1)

RECURSIVE FindLastFrom(_, _)
FindLastFrom(cs, k) ==
    IF k < 1 THEN 0
    ELSE IF Eligible(cs[k]) THEN k
    ELSE FindLastFrom(cs, k - 1)

\* find searching from the end of the array
FindLast(cs) == FindLastFrom(cs, Len(cs))

\* Array.prototype.find with the predicate above: the index found, 0 for undefined
Find(cs) == FindFrom(cs, 1)

\* the element after element k
JoinPartShifted(parts, k) == IF k + 1 <= Len(parts) THEN parts[k + 1] ELSE << >>

\* element k of a JavaScript array inside [...].join(""): undefined joins as ""
JoinPart(parts, k) == IF k <= Len(parts) THEN parts[k] ELSE << >>

\* the record pushed for a prediction and its selected consequence
Record(result, consequence) ==
    LET uniprotId == Split(consequence.swissprot[1], ".")[1]
        aminoAcids == Split(consequence.amino_acids, "/")
        aminoAcidMutation ==
            Flatten(<< JoinPart(aminoAcids, 1),
                       NumberToString(consequence.protein_start),
                       JoinPart(aminoAcids, 2) >>)
    IN  [ variant |-> result.input,
          geneId |-> consequence.gene_id,
          uniprotId |-> uniprotId,
          pdbId |-> Null,
          pdbStructures |-> << >>,
          aminoAcids |-> aminoAcids,
          aminoAcidMutation |-> aminoAcidMutation,
          aminoAcidMutationPosition |-> consequence.protein_start,
          siftPrediction |-> consequence.sift_prediction,
          siftScore |-> consequence.sift_score,
          polyphenPrediction |-> consequence.polyphen_prediction,
          polyphenScore |-> consequence.polyphen_score,
          icn3dPdb |-> Null,
          icn3dAlphafold |-> Null,
          consequence |-> consequence ]

\* the records the first loop pushes for one prediction: one or none
Pushed(result) ==
    LET k == Find(result.transcript_consequences)
    IN  IF k = 0 THEN << >>
        ELSE << Record(result, result.transcript_consequences[k]) >>

RECURSIVE CollectRange(_, _, _)
\* the first loop over items a..b in order (the range is halved to keep the
\* evaluation shallow)
CollectRange(items, a, b) ==
    IF a > b THEN << >>
    ELSE IF a = b THEN Pushed(items[a])
    ELSE LET m == (a + b) \div 2
         IN  CollectRange(items, a, m) \o CollectRange(items, m + 1, b)

\* the first loop leaving the batch at the first record whose amino_acids
\* did not split in two
CollectStopping(items) ==
    LET all == CollectRange(items, 1, Len(items))
        bad == { k \in 1..Len(all) : Len(all[k].aminoAcids) # 2 }
    IN  IF bad = { } THEN all
        ELSE SubSeq(all, 1, (CHOOSE k \in bad : \A m \in bad : k <= m) - 1)

\* the first loop: one record per prediction that has an eligible consequence
Collect(items) == CollectRange(items, 1, Len(items))

\* results.map((r) => r.uniprotId), the argument of getBestStructures
UniprotIds(rs) == [ k \in 1..Len(rs) |-> rs[k].uniprotId ]

\* getBestStructures: the service answers with the accessions it knows among
\* those asked for
getBestStructures(db, uniprotIds) ==
    [ a \in { b \in DOMAIN db : \E k \in 1..Len(uniprotIds) : uniprotIds[k] = b } |-> db[a] ]

\* the second loop with the last candidate for the first
AttachLast(rs, bestStructures) ==
    [ k \in 1..Len(rs) |->
        IF rs[k].uniprotId \notin DOMAIN bestStructures THEN rs[k]
        ELSE LET pdbStructures == bestStructures[rs[k].uniprotId]
                 highestResolutionStructure == pdbStructures[Len(pdbStructures)]
             IN  [ rs[k] EXCEPT
                     !.pdbId = Join(<< highestResolutionStructure.pdb_id,
                                       highestResolutionStructure.chain_id >>, << "_" >>),
                     !.pdbStructures = pdbStructures ] ]

\* the second loop: the first candidate of the record's accession, if any
Attach(rs, bestStructures) ==
    [ k \in 1..Len(rs) |->
        IF rs[k].uniprotId \notin DOMAIN bestStructures THEN rs[k]
        ELSE LET pdbStructures == bestStructures[rs[k].uniprotId]
                 highestResolutionStructure == pdbStructures[1]
             IN  [ rs[k] EXCEPT
                     !.pdbId = Join(<< highestResolutionStructure.pdb_id,
                                       highestResolutionStructure.chain_id >>, << "_" >>),
                     !.pdbStructures = pdbStructures ] ]

-----------------------------------------------------------------------------
(* The iCn3D links.  A text is a sequence of fragments, each a word of
   characters encodeURIComponent leaves alone or a single other character. *)

\* encodeURIComponent on one fragment
EncodeFragment(c) ==
    CASE c = " " -> "%20"
      [] c = "|" -> "%7C"
      [] c = ";" -> "%3B"
      [] c = "/" -> "%2F"
      [] c = "," -> "%2C"
      [] c = "=" -> "%3D"
      [] c = "&" -> "%26"
      [] OTHER -> c

encodeURIComponent(t) == [ k \in 1..Len(t) |-> EncodeFragment(t[k]) ]

\* encodeUrl(object, true) for an object given as its entries << key, value >>,
\* none of the values an array
encodeUrl(entries) ==
    Join([ k \in 1..Len(entries) |->
             encodeURIComponent(entries[k][1]) \o << "=" >>
                 \o encodeURIComponent(entries[k][2]) ],
         << "&" >>)

\* new Date(): the day the pipeline runs (getMonth counts from 0)
Today == [ FullYear |-> 2023, Month |-> 5, Date |-> 9 ]

\* [date.getFullYear(), date.getMonth() + 1, date.getDate()].join("")
DateParam ==
    Flatten(<< NumberToString(Today.FullYear), NumberToString(Today.Month + 1),
               NumberToString(Today.Date) >>)

Icn3dUrl == "https://www.ncbi.nlm.nih.gov/Structure/icn3d/full.html"

\* ${array[k - 1]} in a template literal: undefined prints as "undefined"
Template(parts, k) == IF k <= Len(parts) THEN parts[k] ELSE << "undefined" >>

\* the command script for chain chainid and the record's mutation
Command(chainid, position, aminoAcid) ==
    LET track(title) ==
            << "add", " ", "track", " ", "|", " ", "chainid", " " >> \o chainid
            \o << " ", "|", " ", "title", " ", title, " ", "|", " ", "text", " " >>
            \o position \o << " " >> \o aminoAcid
    IN  Join(<< << "view", " ", "annotations" >>,
                << "set", " ", "annotation", " ", "cdd" >>,
                << "set", " ", "view", " ", "detailed", " ", "view" >>,
                << "set", " ", "thickness", " ", "|", " ", "stickrad", " ", "0.2" >>,
                track("SIFT_predict"),
                track("Polyphen_predict"),
                << "scap", " ", "interaction", " " >> \o chainid \o << "_" >>
                    \o position \o << "_" >> \o aminoAcid >>,
             << ";", " " >>)

getIcn3dAlphafoldUrl(result) ==
    LET params ==
            << << << "afid" >>, result.uniprotId >>,
               << << "date" >>, DateParam >>,
               << << "v" >>, << "3.12.7" >> >>,
               << << "command" >>,
                  Command(result.uniprotId \o << "_A" >>,
                          NumberToString(result.aminoAcidMutationPosition),
                          Template(result.aminoAcids, 2)) >> >>
    IN  << Icn3dUrl, "?" >> \o encodeUrl(params)

getIcn3dPdbUrl(result) ==
    LET offset == 0
        params ==
            << << << "pdbid" >>, result.pdbId >>,
               << << "date" >>, DateParam >>,
               << << "v" >>, << "3.12.7" >> >>,
               << << "command" >>,
                  Command(result.pdbId,
                          NumberToString(result.aminoAcidMutationPosition + offset),
                          Template(result.aminoAcids, 2)) >> >>
    IN  << Icn3dUrl, "?" >> \o encodeUrl(params)

\* the test that skips a record in the third loop, sift alone deciding
NotHighImpactSiftOnly(r) == r.siftPrediction # "deleterious"

\* the test that skips a record in the third loop
NotHighImpact(r) ==
    r.siftPrediction # "deleterious" /\ r.polyphenPrediction # "probably_damaging"

\* the third loop: the links of the high-impact records
Icn3d(rs) ==
    [ k \in 1..Len(rs) |->
        IF NotHighImpact(rs[k]) THEN rs[k]
        ELSE [ rs[k] EXCEPT
                 !.icn3dPdb = IF rs[k].pdbId # Null THEN getIcn3dPdbUrl(rs[k]) ELSE Null,
                 !.icn3dAlphafold = getIcn3dAlphafoldUrl(rs[k]) ] ]

\* processVariantConsequences on an array, for the content db of the
\* structure service
processVariantConsequences(items, db) ==
    LET rs == Collect(items)
    IN  Icn3d(Attach(rs, getBestStructures(db, UniprotIds(rs))))

(* processVariantConsequences step by step *)

\* the call runs up to its await: the first loop, then the request to the
\* structure service.  for...of over a value that is no array throws.
Assemble ==
    /\ pc = "assemble"
    /\ IF data.kind # "array"
       THEN /\ pc' = "error"
            /\ error' = "TypeError"
            /\ UNCHANGED << results, bestCalls, events >>
       ELSE /\ results' = Collect(data.items)
            /\ bestCalls' = Append(bestCalls, UniprotIds(results'))
            /\ events' = Append(events, << "best", Len(yielded) >>)
            /\ pc' = "awaitBest"
            /\ error' = error
    /\ UNCHANGED << variants, requests, response, data, pdbe, output >>
    /\ UNCHANGED readerVars /\ UNCHANGED chunkVars
    /\ UNCHANGED pollVars

\* the structure service answers: the second and third loops run and the
\* call returns results
BestStructures ==
    /\ pc = "awaitBest"
    /\ LET bestStructures == getBestStructures(pdbe, bestCalls[Len(bestCalls)])
       IN  results' = Icn3d(Attach(results, bestStructures))
    /\ events' = Append(events, << "assembled", Len(yielded) >>)
    /\ pc' = "assembled"
    /\ UNCHANGED << error, variants, requests, response, data, bestCalls, pdbe, output >>
    /\ UNCHANGED readerVars /\ UNCHANGED chunkVars
    /\ UNCHANGED pollVars

\* candidate structures of the service
Candidate(id, chain) == [ pdb_id |-> id, chain_id |-> chain ]
PdbeContents ==
    { [ a \in { } |-> << >> ],
      [ a \in { P12345 } |->
          << Candidate(<< "1", "a", "b", "c" >>, << "A" >>),
             Candidate(<< "2", "x", "y", "z" >>, << "B" >>) >> ],
      [ a \in { P12345, Q9 } |->
          IF a = P12345
          THEN << Candidate(<< "1", "a", "b", "c" >>, << "A" >>) >>
          ELSE << Candidate(<< "3", "q", "q", "q" >>, << "C" >>),
                  Candidate(<< "1", "a", "b", "c" >>, << "A" >>) >> ] }

\* the predictions of a response: one per query line, in order
Predictions(choice) ==
    [ k \in 1..Len(choice) |->
        [ input |-> QueryLine(k), transcript_consequences |-> TranscriptChoices[choice[k]] ] ]

InitAssemble ==
    /\ pc = "assemble" /\ error = "none"
    /\ \E n \in 0..MaxData : \E choice \in [ 1..n -> 1..Len(TranscriptChoices) ] :
          data = [ kind |-> "array", items |-> Predictions(choice) ]
    /\ pdbe \in PdbeContents
    /\ variants = << >>
    /\ requests = << >> /\ response = NoResponse /\ results = << >>
    /\ bestCalls = << >> /\ output = << >> /\ events = << >>
    /\ IdleReader /\ IdleChunk /\ IdlePoll

NextAssemble == Assemble \/ BestStructures

SpecAssemble == InitAssemble /\ [][NextAssemble]_vars

-----------------------------------------------------------------------------
(* vizsnp *)

\* the chunk size vizsnp passes to chunk
VizsnpChunkSize == 200

\* the await of readVcfFile: vcfFileContents
ReadVcf ==
    /\ pc = "start"
    /\ variants' = readVcfFile(file, limit, filter)
    /\ pc' = "chunk"
    /\ UNCHANGED error
    /\ UNCHANGED readerVars /\ UNCHANGED chunkVars /\ UNCHANGED driverVars
    /\ UNCHANGED pollVars

\* getVariantConsequences(parsedVariants, species) up to its await: one POST
\* with the batch's query lines
VepRequest ==
    /\ pc = "batch"
    /\ requests' = Append(requests, MapParseVariant(batch))
    /\ events' = Append(events, << "vep", Len(yielded) >>)
    /\ pc' = "awaitVep"
    /\ UNCHANGED << error, variants, response, data, results, bestCalls, pdbe, output >>
    /\ UNCHANGED readerVars /\ UNCHANGED chunkVars
    /\ UNCHANGED pollVars

\* the service's answer to a request whose first query line is the one of
\* variant number first + 1 of vcfFileContents: one prediction per query
\* line, in order
VepBody(request, first) ==
    [ k \in 1..Len(request) |->
        [ input |-> request[k],
          transcript_consequences |->
              TranscriptChoices[((first + k - 1) % Len(TranscriptChoices)) + 1] ] ]

\* the responses the service may give: success with the predictions, or a
\* non-success status with a JSON error object or with a body that is no JSON
VepResponses(request, first) ==
    { [ ok |-> TRUE, kind |-> "array", body |-> VepBody(request, first) ],
      [ ok |-> FALSE, kind |-> "object", body |-> << >> ],
      [ ok |-> FALSE, kind |-> "text", body |-> << >> ] }

\* what getVariantConsequences does with the response: response.json(),
\* whatever the status; a body that is no JSON makes json() reject
Returned(resp) ==
    IF resp.kind = "text"
    THEN [ threw |-> TRUE, error |-> "SyntaxError", value |-> NoData ]
    ELSE [ threw |-> FALSE, error |-> "none",
           value |-> [ kind |-> resp.kind, items |-> resp.body ] ]

\* the consequence service answers and getVariantConsequences returns
VepResponse ==
    /\ pc = "awaitVep"
    /\ \E resp \in VepResponses(requests[Len(requests)], i) :
          /\ response' = resp
          /\ IF Returned(resp).threw
             THEN /\ pc' = "error"
                  /\ error' = Returned(resp).error
                  /\ data' = data
             ELSE /\ pc' = "assemble"
                  /\ error' = error
                  /\ data' = Returned(resp).value
    /\ UNCHANGED << variants, requests, results, bestCalls, pdbe, output, events >>
    /\ UNCHANGED readerVars /\ UNCHANGED chunkVars
    /\ UNCHANGED pollVars

\* results.concat with the operands swapped
ConcatSwapped(out, rs) == rs \o out

\* results.concat(processedVariantConsequences)
Concat(out, rs) == out \o rs

\* the await of processVariantConsequences is over: the batch's records join
\* the results and the loop asks for the next batch
ConcatResults ==
    /\ pc = "assembled"
    /\ output' = Concat(output, results)
    /\ pc' = "chunk"
    /\ UNCHANGED << error, variants, requests, response, data, results, bestCalls,
                    pdbe, events >>
    /\ UNCHANGED readerVars /\ UNCHANGED chunkVars
    /\ UNCHANGED pollVars

\* the generator is done: return results
Return ==
    /\ pc = "return"
    /\ pc' = "done"
    /\ UNCHANGED << error, variants >>
    /\ UNCHANGED readerVars /\ UNCHANGED chunkVars /\ UNCHANGED driverVars
    /\ UNCHANGED pollVars

\* files with enough lines for several batches
DriverFiles == FilesOf({ 0, 1, VizsnpChunkSize + 1 }, { << TagA, TagB >> })
DriverLimits == { VizsnpChunkSize, 5 * VizsnpChunkSize }
DriverFilters == { << >>, << "=", "B" >> }

Init ==
    /\ pc = "start" /\ error = "none"
    /\ file \in DriverFiles
    /\ limit \in DriverLimits
    /\ filter \in DriverFilters
    /\ refIdx = 0 /\ lineIdx = 0 /\ variants = << >> /\ wasted = 0
    /\ chunkSize = VizsnpChunkSize
    /\ i = 0 /\ gen = "start" /\ batch = << >> /\ yielded = << >>
    /\ requests = << >> /\ response = NoResponse /\ data = NoData /\ results = << >>
    /\ bestCalls = << >> /\ output = << >> /\ events = << >>
    /\ pdbe \in PdbeContents
    /\ IdlePoll

Next ==
    \/ ReadVcf
    \/ ChunkNext
    \/ VepRequest
    \/ VepResponse
    \/ Assemble
    \/ BestStructures
    \/ ConcatResults
    \/ Return

Spec == Init /\ [][Next]_vars

-----------------------------------------------------------------------------
(* getProteinIds.  The texts of a request body are sequences of words. *)

\* encodeUrl(object) with encode unset, for an object given as its entries
\* << key, value >>, each value an array of words: (Array.isArray(v) ? v : [v])
\* joined with ",", the entries joined with "&"
encodeUrlPlain(entries) ==
    Join([ k \in 1..Len(entries) |->
             << entries[k][1], "=" >>
                 \o Join([ j \in 1..Len(entries[k][2]) |-> << entries[k][2][j] >> ],
                         << "," >>) ],
         << "&" >>)

\* the default arguments from and to
DefaultFrom == "Ensembl"
DefaultTo == "UniProtKB-Swiss-Prot"

\* encodeUrl({ from, to, ids }), the body of the job
RunBody(from, to, idList) ==
    encodeUrlPlain(<< << "from", << from >> >>, << "to", << to >> >>, << "ids", idList >> >>)

\* !value for a value of the service's JSON: null and undefined are falsy, an
\* array is truthy whether it is empty or not
Not(v) == v.kind \in { "null", "undefined" }

\* sleep(1000)
SleepMs == 1000

\* while (!status.results): the loop sends the next status request or the
\* function returns
LoopTest(st) == IF Not(st.results) THEN "awaitStatus" ELSE "done"

\* the loop body after a status answer, without the sleep
AfterStatusNoSleep(st) == LoopTest(st)

\* the loop body after a status answer: if (!status.results) await sleep(1000)
AfterStatus(st) == IF Not(st.results) THEN "sleep" ELSE LoopTest(st)

\* the status requests sent once the call moves on to next
Polled(next) == IF next = "awaitStatus" THEN Min(polls + 1, MaxPolls) ELSE polls

\* return status.results, once the call moves on to next with status st
ReturnValue(next, st) == IF next = "done" THEN st.results ELSE mapped

\* the identifiers the mapping service knows, and what a finished job reports
\* for a list of identifiers
KnownIds == { "ENSG01", "ENSG02" }
AccessionOf(id) == IF id = "ENSG01" THEN P12345 ELSE Q9
IdMapping(idList) ==
    LET Known(id) == id \in KnownIds
        known == SelectSeq(idList, Known)
    IN  [ k \in 1..Len(known) |-> [ from |-> known[k], to |-> AccessionOf(known[k]) ] ]

\* the answer of the status endpoint for a job: no results while the job
\* runs (or is unknown), the mapping once it has finished
StatusAnswers(j, idList) ==
    IF j.finishes /\ j.pending = 0
    THEN { [ results |-> ArrayValue(IdMapping(idList)) ] }
    ELSE { [ results |-> NullValue ], [ results |-> UndefinedValue ] }

\* the job after a status request
Polling(j) == IF j.finishes /\ j.pending > 0 THEN [ j EXCEPT !.pending = @ - 1 ] ELSE j

\* the call runs up to its first await: the job is posted to the run endpoint
RunRequest ==
    /\ pc = "getProteinIds"
    /\ jobs' = Append(jobs, RunBody(DefaultFrom, DefaultTo, ids))
    /\ pc' = "awaitRun"
    /\ UNCHANGED << error, variants, ids, jobId, job, status, polls, waited, mapped >>
    /\ UNCHANGED readerVars /\ UNCHANGED chunkVars /\ UNCHANGED driverVars

\* the run endpoint answers, with a jobId or without one (the service knows
\* no job "undefined"); the loop starts with status = { results: null }
RunResponse ==
    /\ pc = "awaitRun"
    /\ \E id \in { "job1", Undefined } :
          /\ jobId' = id
          /\ job' = IF id = Undefined THEN [ job EXCEPT !.finishes = FALSE ] ELSE job
    /\ status' = [ results |-> NullValue ]
    /\ pc' = LoopTest(status')
    /\ polls' = Polled(pc')
    /\ mapped' = ReturnValue(pc', status')
    /\ UNCHANGED << error, variants, ids, jobs, waited >>
    /\ UNCHANGED readerVars /\ UNCHANGED chunkVars /\ UNCHANGED driverVars

\* the status endpoint answers: the call sleeps, or returns status.results
StatusResponse ==
    /\ pc = "awaitStatus"
    /\ status' \in StatusAnswers(job, ids)
    /\ job' = Polling(job)
    /\ waited' = 0
    /\ pc' = AfterStatus(status')
    /\ polls' = Polled(pc')
    /\ mapped' = ReturnValue(pc', status')
    /\ UNCHANGED << error, variants, ids, jobs, jobId >>
    /\ UNCHANGED readerVars /\ UNCHANGED chunkVars /\ UNCHANGED driverVars

\* the timer of sleep(1000) fires and the loop tests status again
SleepDone ==
    /\ pc = "sleep"
    /\ waited' = waited + SleepMs
    /\ pc' = LoopTest(status)
    /\ polls' = Polled(pc')
    /\ mapped' = ReturnValue(pc', status)
    /\ UNCHANGED << error, variants, ids, jobs, jobId, job, status >>
    /\ UNCHANGED readerVars /\ UNCHANGED chunkVars /\ UNCHANGED driverVars

\* lists of identifiers: none, known ones, an unknown one
IdLists ==
    { << >>, << "ENSG01" >>, << "ENSG03" >>, << "ENSG01", "ENSG02" >>,
      << "ENSG03", "ENSG02" >> }

\* the jobs of the service: finished after some status requests, or never
Jobs ==
    { [ finishes |-> TRUE, pending |-> n ] : n \in 0..(MaxPolls - 1) }
        \cup { [ finishes |-> FALSE, pending |-> 0 ] }

InitPoll ==
    /\ pc = "getProteinIds" /\ error = "none"
    /\ ids \in IdLists
    /\ job \in Jobs
    /\ jobs = << >> /\ jobId = Undefined
    /\ status = [ results |-> NullValue ]
    /\ polls = 0 /\ waited = 0 /\ mapped = UndefinedValue
    /\ variants = << >>
    /\ IdleReader /\ IdleChunk /\ IdleDriver

NextPoll == RunRequest \/ RunResponse \/ StatusResponse \/ SleepDone

SpecPoll == InitPoll /\ [][NextPoll]_vars

\* every response arrives and every timer fires: a step that can be taken
\* is taken
SpecPollFair == SpecPoll /\ WF_vars(NextPoll)

-----------------------------------------------------------------------------
(* Properties of readVcfFile, under SpecRead *)

\* C1: at every point of readVcfFile the variants list has at most limit
\* elements, and each element is the parse of a line of the file that was
\* accepted with the filter unset or a substring of the raw line.
C1_AtMostLimit ==
    /\ Len(variants) <= limit
    /\ \A k \in 1..Len(variants) :
          \E r \in 1..Len(file) : \E j \in 1..file[r].n :
              /\ variants[k] = parseLine(LineOf(file[r], j))
              /\ filter = << >> \/ Includes(RawLine(LineOf(file[r], j)), filter)

\* a read over two reference sequences that ended with the limit reached,
\* lines turned down by the filter and lines turned down by the limit
C1_Witness ==
    /\ pc = "readDone"
    /\ Len(file) = 2
    /\ limit > 0 /\ Len(variants) = limit
    /\ wasted > 0
    /\ filter # << >>
    /\ \E j \in 1..file[1].n : ~Includes(RawLine(LineOf(file[1], j)), filter)

\* C2: once limit records are accumulated, no getLines is started for a
\* later reference sequence and no line callback runs past the limit: a
\* lookup of a later reference sequence starts below the limit (limit > 0)
\* and follows no callback that ran with the limit reached.
C2_StopsAtLimit ==
    (limit > 0 /\ pc = "getLines" /\ refIdx > 1) =>
        /\ lineIdx = 0 => Len(variants) < limit
        /\ wasted = 0

-----------------------------------------------------------------------------
(* Properties of chunk, under SpecChunk *)

\* batches bs partition the array in order, full but for the last
Partition(bs, array, size) ==
    /\ Flatten(bs) = array
    /\ \A k \in 1..Len(bs) :
          /\ k < Len(bs) => Len(bs[k]) = size
          /\ Len(bs[k]) >= 1 /\ Len(bs[k]) <= size
    /\ array = << >> => bs = << >>

\* C3: for every array and every size >= 1 the batches concatenate to the
\* array, every batch but the last has size elements, the last has 1..size,
\* and an empty array gives no batch; for the generator and for the chunk
\* that returns an array.
C3_ChunkPartition ==
    /\ gen = "done" => Partition(yielded, variants, chunkSize)
    /\ Flatten(yielded) = SubSeq(variants, 1, Len(Flatten(yielded)))
    /\ Partition(chunk(variants, chunkSize), variants, chunkSize)

\* the generator is done after several batches, the last one short
C3_Witness ==
    /\ gen = "done"
    /\ Len(yielded) >= 2
    /\ Len(yielded[Len(yielded)]) < chunkSize

-----------------------------------------------------------------------------
(* Properties of vizsnp, under Spec *)

\* position of query line q among the query lines qs
IndexIn(qs, q) == CHOOSE k \in 1..Len(qs) : qs[k] = q

\* what assembling batch k returns
AssembledBatch(k) ==
    processVariantConsequences(
        VepBody(MapParseVariant(yielded[k]), (k - 1) * chunkSize), pdbe)

\* C4: the request for batch k+1 is issued only after the assembly of batch
\* k, structure lookup included, is complete; the final result is the
\* concatenation of the batches' records in batch order, so the records
\* keep the relative order of their variants.
C4_Sequential ==
    /\ \A p \in 1..Len(events) :
          (events[p][1] = "vep" /\ events[p][2] > 1) =>
              \E q \in 1..(p - 1) :
                  /\ events[q] = << "assembled", events[p][2] - 1 >>
                  /\ \E b \in 1..(q - 1) : events[b] = << "best", events[p][2] - 1 >>
    /\ pc = "done" =>
          /\ output = Flatten([ k \in 1..Len(yielded) |-> AssembledBatch(k) ])
          /\ LET queries == MapParseVariant(variants)
             IN  \A m \in 1..(Len(output) - 1) :
                    IndexIn(queries, output[m].variant)
                        < IndexIn(queries, output[m + 1].variant)

\* a run of three batches is done with records of more than one batch
C4_Witness ==
    /\ pc = "done"
    /\ Len(yielded) >= 3
    /\ Len(output) > VizsnpChunkSize

\* C10: on a non-success response getVariantConsequences fails (with
\* whatever error stands for RemoteError) and does not return the body as
\* predictions; each call issues one request.
C10_RemoteError ==
    /\ ~response.ok => (pc = "error" /\ data # [ kind |-> response.kind, items |-> response.body ])
    /\ Len(requests) <= Len(yielded)

-----------------------------------------------------------------------------
(* Properties of processVariantConsequences, under SpecAssemble *)

\* the call has run its first loop
Collected == pc \in { "awaitBest", "assembled" }

\* a consequence with a protein accession and one of the two predictions
HasProteinAndPrediction(c) ==
    /\ c.swissprot # << >>
    /\ \/ c.sift_prediction \notin { Undefined, "" }
       \/ c.polyphen_prediction \notin { Undefined, "" }

\* index of the first such consequence of prediction j, 0 if there is none
FirstEligible(j) ==
    LET cs == data.items[j].transcript_consequences
        ok == { k \in 1..Len(cs) : HasProteinAndPrediction(cs[k]) }
    IN  IF ok = { } THEN 0 ELSE CHOOSE k \in ok : \A m \in ok : k <= m

\* the predictions that have one
Kept == { j \in 1..Len(data.items) : FirstEligible(j) # 0 }

\* the m-th of them
KeptAt(m) == CHOOSE j \in Kept : Cardinality({ x \in Kept : x <= j }) = m

\* C5: the output has one record per prediction that has an eligible
\* consequence, in order, made from the first eligible consequence in the
\* service's order; the other predictions give no record and no error.
C5_FirstEligible ==
    Collected =>
        /\ error = "none"
        /\ Len(results) = Cardinality(Kept)
        /\ \A m \in 1..Len(results) :
              /\ results[m].variant = data.items[KeptAt(m)].input
              /\ results[m].consequence =
                    data.items[KeptAt(m)].transcript_consequences[FirstEligible(KeptAt(m))]

\* a call whose data has a prediction without consequences, one with none
\* eligible, one whose first consequence is not eligible while its second
\* is, and one with two eligible consequences
C5_Witness ==
    /\ pc = "assembled"
    /\ \E j \in 1..Len(data.items) : data.items[j].transcript_consequences = << >>
    /\ \E j \in 1..Len(data.items) :
          data.items[j].transcript_consequences # << >> /\ FirstEligible(j) = 0
    /\ \E j \in 1..Len(data.items) :
          \/ FirstEligible(j) = 2
          \/ /\ FirstEligible(j) = 1
             /\ Len(data.items[j].transcript_consequences) = 2
             /\ HasProteinAndPrediction(data.items[j].transcript_consequences[2])

\* C6: getBestStructures is called once per call of the assembler, with the
\* accessions of the assembled records, none of them twice.
C6_OneDeduplicatedCall ==
    Collected =>
        /\ Len(bestCalls) = 1
        /\ { bestCalls[1][k] : k \in 1..Len(bestCalls[1]) }
              = { results[k].uniprotId : k \in 1..Len(results) }
        /\ \A a, b \in 1..Len(bestCalls[1]) :
              a # b => bestCalls[1][a] # bestCalls[1][b]

HighImpact(r) ==
    r.siftPrediction = "deleterious" \/ r.polyphenPrediction = "probably_damaging"

\* C7 as claimed: in every returned record icn3dPdb and icn3dAlphafold are
\* non-empty if and only if the record is high-impact.
C7_CommandsIffHighImpact ==
    pc = "assembled" =>
        \A k \in 1..Len(results) :
            /\ results[k].icn3dPdb # Null <=> HighImpact(results[k])
            /\ results[k].icn3dAlphafold # Null <=> HighImpact(results[k])

\* C7 amended: icn3dAlphafold is non-empty if and only if the record is
\* high-impact; icn3dPdb is non-empty if and only if the record is
\* high-impact and has a pdbId; a record that is not high-impact has both
\* empty.
C7_CommandsAmended ==
    pc = "assembled" =>
        \A k \in 1..Len(results) :
            /\ results[k].icn3dAlphafold # Null <=> HighImpact(results[k])
            /\ results[k].icn3dPdb # Null <=>
                  (HighImpact(results[k]) /\ results[k].pdbId # Null)

\* returned records: high-impact by polyphen alone without a structure,
\* high-impact with a structure, and not high-impact with a structure
C7_Witness ==
    /\ pc = "assembled"
    /\ \E k \in 1..Len(results) :
          /\ results[k].siftPrediction # "deleterious"
          /\ HighImpact(results[k])
          /\ results[k].pdbId = Null
          /\ results[k].icn3dAlphafold # Null
    /\ \E k \in 1..Len(results) : HighImpact(results[k]) /\ results[k].pdbId # Null
    /\ \E k \in 1..Len(results) : ~HighImpact(results[k]) /\ results[k].pdbId # Null

\* the batch of the scenario: A without consequences, B with amino_acids
\* "A/V", protein_start 42, sift "deleterious", swissprot ["P12345.2"], C
\* like B but sift "tolerated" and polyphen "benign"
ScenarioBatch == Predictions(<< 1, 2, 3 >>)
A42V == << "A", "4", "2", "V" >>

\* C8 as claimed: the output for the scenario is exactly the record of B,
\* with aminoAcidMutation "A42V" and a non-empty icn3dAlphafold.
C8_OnlyB ==
    (pc = "assembled" /\ data.items = ScenarioBatch) =>
        /\ Len(results) = 1
        /\ results[1].variant = ScenarioBatch[2].input
        /\ results[1].aminoAcidMutation = A42V
        /\ results[1].icn3dAlphafold # Null

\* C8 amended: the output for the scenario is the record of B, with
\* aminoAcidMutation "A42V" and a non-empty icn3dAlphafold, followed by the
\* record of C, with aminoAcidMutation "A42V" and both command fields
\* empty; A is absent.
C8_BThenC ==
    (pc = "assembled" /\ data.items = ScenarioBatch) =>
        /\ Len(results) = 2
        /\ results[1].variant = ScenarioBatch[2].input
        /\ results[1].aminoAcidMutation = A42V
        /\ results[1].icn3dAlphafold # Null
        /\ results[2].variant = ScenarioBatch[3].input
        /\ results[2].aminoAcidMutation = A42V
        /\ results[2].icn3dAlphafold = Null /\ results[2].icn3dPdb = Null

\* the scenario has been assembled with P12345 in the structure mapping
C8_Witness ==
    /\ pc = "assembled"
    /\ data.items = ScenarioBatch
    /\ P12345 \in DOMAIN pdbe
    /\ results[1].icn3dPdb # Null

\* the number of "/" in a string
Slashes(t) == Cardinality({ k \in 1..Len(t) : t[k] = "/" })

\* prediction j's selected consequence has an amino_acids not of two parts
Malformed(j) ==
    /\ FirstEligible(j) # 0
    /\ Slashes(data.items[j].transcript_consequences[FirstEligible(j)].amino_acids) # 1

MalformedInputs == { data.items[j].input : j \in { x \in 1..Len(data.items) : Malformed(x) } }

\* a record with both amino acids and the mutation made of them
WellFormed(r) ==
    /\ Len(r.aminoAcids) = 2
    /\ r.aminoAcidMutation =
          r.aminoAcids[1] \o NumberToString(r.aminoAcidMutationPosition) \o r.aminoAcids[2]

\* C9: a prediction whose selected consequence has an amino_acids without
\* "/" (or not of two parts) gives no well-formed record, and the call
\* returns for the other predictions exactly the records it returns when
\* the malformed ones are left out of the data: the batch is not aborted.
C9_MalformedIsolated ==
    pc = "assembled" =>
        LET IsOther(r) == r.variant \notin MalformedInputs
            IsOtherItem(it) == it.input \notin MalformedInputs
        IN  /\ error = "none"
            /\ \A k \in 1..Len(results) :
                  ~IsOther(results[k]) => ~WellFormed(results[k])
            /\ SelectSeq(results, IsOther)
                  = processVariantConsequences(SelectSeq(data.items, IsOtherItem), pdbe)

\* a call returned with a malformed prediction ahead of one that gave a
\* well-formed record
C9_Witness ==
    /\ pc = "assembled"
    /\ \E j \in 1..Len(data.items) :
          /\ Malformed(j)
          /\ \E k \in 1..Len(results) :
                /\ WellFormed(results[k])
                /\ \E j2 \in (j + 1)..Len(data.items) :
                      data.items[j2].input = results[k].variant

-----------------------------------------------------------------------------
(* Properties of getProteinIds, under SpecPollFair *)

\* the call has posted its job
Submitted == pc # "getProteinIds"

\* what holds at every point of a call of getProteinIds
PollInvariant ==
    \* one job, posted before anything else, with the arguments of the call
    /\ Len(jobs) = (IF Submitted THEN 1 ELSE 0)
    /\ Submitted => jobs[1] = RunBody(DefaultFrom, DefaultTo, ids)
    /\ pc \in { "getProteinIds", "awaitRun" } => polls = 0
    \* a status request that is not the first follows a wait of 1000 ms
    /\ (pc = "awaitStatus" /\ polls > 1) => waited = SleepMs
    \* a status request or a wait follows only answers without results
    /\ pc \in { "awaitStatus", "sleep" } => Not(status.results)
    \* the call returns the results of the answer that had them, at once
    /\ pc = "done" <=> ~Not(status.results)
    /\ pc = "done" =>
          /\ mapped = status.results
          /\ mapped = ArrayValue(IdMapping(ids))
          /\ polls >= 1 /\ waited = 0
    \* the call does not return while the job has no results
    /\ (~job.finishes \/ job.pending > 0) => pc # "done"

\* C11: getProteinIds posts exactly one job and then polls its status; a
\* status request after an answer without results follows a wait of 1000 ms,
\* the call returns the results of the first answer that has them without
\* another request, and it never returns before such an answer; once it
\* polls a job that finishes it returns, however many requests that takes.
C11_SubmitThenPoll ==
    /\ []PollInvariant
    /\ (pc = "awaitStatus" /\ job.finishes) ~> (pc = "done")

\* a call that returned a mapping after three or more status requests, each
\* but the last answered without results
C11_Witness ==
    /\ pc = "done"
    /\ polls >= 3
    /\ Len(jobs) = 1
    /\ mapped.items # << >>

-----------------------------------------------------------------------------
(* Properties of the structure selection, under SpecAssemble *)

\* the structure mapping the call received
Mapping == getBestStructures(pdbe, bestCalls[Len(bestCalls)])

\* `{pdb_id}_{chain_id}` of a candidate
Composed(c) == c.pdb_id \o << "_" >> \o c.chain_id

\* C12: in every returned record whose accession is a key of the structure
\* mapping, pdbStructures is that accession's list and pdbId is
\* `{pdb_id}_{chain_id}` of the candidate at index 0, not of a candidate
\* that differs from it; a record whose accession is not a key keeps pdbId
\* empty and no candidates, and the call ends without an error.
C12_FirstCandidate ==
    pc = "assembled" =>
        /\ error = "none"
        /\ \A k \in 1..Len(results) :
              LET a == results[k].uniprotId
              IN  IF a \in DOMAIN Mapping
                  THEN /\ results[k].pdbStructures = Mapping[a]
                       /\ results[k].pdbId = Composed(Mapping[a][1])
                       /\ \A j \in 2..Len(Mapping[a]) :
                             Mapping[a][j] # Mapping[a][1] =>
                                 results[k].pdbId # Composed(Mapping[a][j])
                  ELSE /\ results[k].pdbId = Null
                       /\ results[k].pdbStructures = << >>

\* a call returned a record whose accession has two candidates in the
\* mapping and a record whose accession is not in the mapping
C12_Witness ==
    /\ pc = "assembled"
    /\ \E k \in 1..Len(results) :
          /\ results[k].uniprotId \in DOMAIN Mapping
          /\ Len(Mapping[results[k].uniprotId]) >= 2
          /\ results[k].pdbId # Null
    /\ \E k \in 1..Len(results) :
          /\ results[k].uniprotId \notin DOMAIN Mapping
          /\ results[k].pdbId = Null

====
